---- MODULE Spec2Model ----
(***************************************************************************)
(* A cluster of nodes built on the rustengan event loop.                   *)
(*   src/bin/broadcast.rs  : BroadcastNode, the gossip engine              *)
(*   src/bin/unique_ids.rs : UniqueNode, the unique id generator           *)
(* Each node is a single consumer of its event queue; one action of this   *)
(* model is one call of Node::step on one event.                           *)
(***************************************************************************)
EXTENDS Integers, Sequences, FiniteSets, TLC

(***************************************************************************)
(* Bounds of the model                                                     *)
(***************************************************************************)
\* broadcast values are 1..MaxVal
MaxVal == 2
\* the nodes of a cluster draw at most MaxDrawn counter values in all
MaxDrawn == 3
\* client requests carry msg_id 1..MaxMsgId
MaxMsgId == 1
\* broadcast values of FairSpec are 1..MaxFlowVal
MaxFlowVal == 1
\* broadcast values of TickSpec are 1..MaxTickVal; more than SampleCap
MaxTickVal == 12
\* the unique-id nodes of a cluster draw at most MaxGenerated counter values
MaxGenerated == 4
\* the producers of a process enqueue at most MaxEnqueued events
MaxEnqueued == 4

(***************************************************************************)
(* Program constants                                                       *)
(***************************************************************************)
\* first value of the counter, `id: 1`
FirstId == 1
\* the literal 10 of `10.min(already_known.len() as u32)`
SampleCap == 10

\* init.node_ids, the cluster membership
Nodes == {"n1", "n2", "n3"}
\* an id outside the membership
Stranger == "n9"
Clients == {"c1"}
Values == 1..MaxVal
FlowValues == 1..MaxFlowVal
MsgIds == 1..MaxMsgId

Range(s) == {s[i] : i \in DOMAIN s}

(***************************************************************************)
(* Topology assignments offered by the environment                         *)
(***************************************************************************)
Line == [n \in Nodes |-> CASE n = "n1" -> <<"n2">>
                           [] n = "n2" -> <<"n1", "n3">>
                           [] n = "n3" -> <<"n2">>]
Star == [n \in Nodes |-> CASE n = "n1" -> <<"n3", "n2">>
                           [] n = "n2" -> <<"n1">>
                           [] n = "n3" -> <<"n1">>]
\* no entry for n1
Partial == [n \in {"n2", "n3"} |-> CASE n = "n2" -> <<"n3">>
                                     [] n = "n3" -> <<"n2">>]
\* n3 is told to gossip with an id outside the membership
Foreign == [n \in Nodes |-> CASE n = "n1" -> <<"n2">>
                              [] n = "n2" -> <<"n1">>
                              [] n = "n3" -> <<"n2", Stranger>>]
FlowTopologies == {Line}
Topologies == {Line, Star, Partial, Foreign}

(***************************************************************************)
(* State                                                                   *)
(***************************************************************************)
VARIABLES
    messages,      \* BroadcastNode.messages      : [Nodes -> SUBSET Nat]
    known,         \* BroadcastNode.known         : [Nodes -> [Nodes -> SUBSET Nat]]
    neighborhood,  \* BroadcastNode.neighborhood  : [Nodes -> Seq(node id)]
    id,            \* BroadcastNode.id / UniqueNode.id : [Nodes -> Nat]
    aborted,       \* the process of the node has panicked
    chan,          \* per <<src, dst>>, the Gossip messages src has written
                   \*   and dst has not read
    lastEvt,       \* the last call of step: its node, its event and the
                   \*   node's value before the call
    lastOut,       \* the messages that call wrote, in order
    broadcasted,   \* history: values of all Broadcast requests delivered
    delivered,     \* history: per node, values delivered by Broadcast or Gossip
    assigned,      \* history: per node, its entry of the last topology
                   \*   processed, after the last entry that differed from it
    guids,         \* history: node and guid of every generate_ok written
    queue,         \* the event queue (mpsc channel) of one process: the
                   \*   events sent and not received, oldest first
    consumer,      \* the consumer of the queue: "recv" waits for an event,
                   \*   "step" runs step on cur, "gone" has dropped the
                   \*   receiving end
    cur,           \* the event the consumer received last
    timer,         \* the timer thread: "running" or "done"
    reader,        \* the transport reader thread: "reading" or "done"
    enqueued,      \* history: number of events the queue accepted
    taken,         \* history: number of events the consumer received
    attempts       \* history: number of sends the timer thread tried

nodevars == <<messages, known, neighborhood, id, aborted, chan, lastEvt,
              lastOut, broadcasted, delivered, assigned, guids>>
qvars == <<queue, consumer, cur, timer, reader, enqueued, taken, attempts>>
vars == <<nodevars, qvars>>

(***************************************************************************)
(* Messages (rustengan Message / Body) and payloads                        *)
(* Option<usize> is a set: {} is None, {i} is Some(i).                     *)
(***************************************************************************)
Message(src, dst, mid, irt, payload) ==
    [src |-> src, dst |-> dst,
     body |-> [id |-> mid, in_reply_to |-> irt, payload |-> payload]]

Broadcast(v)   == [type |-> "broadcast", message |-> v]
BroadcastOk    == [type |-> "broadcast_ok"]
Read           == [type |-> "read"]
ReadOk(ms)     == [type |-> "read_ok", messages |-> ms]
Topology(t)    == [type |-> "topology", topology |-> t]
TopologyOk     == [type |-> "topology_ok"]
Gossip(seen)   == [type |-> "gossip", seen |-> seen]
Generate       == [type |-> "generate"]
GenerateOk(g)  == [type |-> "generate_ok", guid |-> g]

EventMessage(m) == [kind |-> "Message", msg |-> m]
EventInjected   == [kind |-> "Injected", payload |-> "Gossip"]
EventEOF        == [kind |-> "EOF"]
NoEvent         == [kind |-> "None"]
\* lastEvt before the first call
NoCall          == [node |-> "", event |-> NoEvent, self |-> [node |-> ""]]

\* the BroadcastNode value of node n
Self(n) == [node |-> n, id |-> id[n], messages |-> messages[n],
            known |-> known[n], neighborhood |-> neighborhood[n]]

\* outcome of one call of step: the node afterwards, the messages written,
\* and whether the call panicked
Outcome(self, out, panic) == [self |-> self, out |-> out, panic |-> panic]

(***************************************************************************)
(* rustengan: Message::into_reply(Some(&mut id))                           *)
(* The reply swaps src and dst, answers the request's msg_id and takes the *)
(* next value of the counter as its own msg_id.                            *)
(***************************************************************************)
into_reply(input, counter) ==
    [msg |-> Message(input.dst, input.src, {counter}, input.body.id,
                     input.body.payload),
     id  |-> counter + 1]

(***************************************************************************)
(* BroadcastNode::step, Event::Injected(InjectedPayload::Gossip)           *)
(***************************************************************************)
\* first half of the partition: the m with !know_to_n.contains(m)
already_known(self, n) == {m \in self.messages : m \notin self.known[n]}

\* second half of the partition, before the extend
notify_of(self, n) == {m \in self.messages : ~(m \notin self.known[n])}

\* the results of filtering pool with gen_ratio(10.min(len), len): the ratio
\* is 1 while len <= 10, and strictly between 0 and 1 above
sampled(pool) ==
    IF Cardinality(pool) <= SampleCap THEN {pool} ELSE SUBSET pool

\* the values `seen` of the Gossip message to n can take
seen_sets(self, n) ==
    {notify_of(self, n) \cup extra : extra \in sampled(already_known(self, n))}

\* variant: an id that is not a key of known reads as the empty set
RECURSIVE gossip_loop_or_default(_, _)
gossip_loop_or_default(self, rest) ==
    IF rest = <<>> THEN {Outcome(self, <<>>, FALSE)}
    ELSE LET n    == Head(rest)
             sets == IF n \in DOMAIN self.known THEN seen_sets(self, n)
                     ELSE sampled(self.messages)
         IN  {Outcome(o.self,
                      <<Message(self.node, n, {}, {}, Gossip(seen))>> \o o.out,
                      o.panic) :
                  seen \in sets,
                  o \in gossip_loop_or_default([self EXCEPT !.id = @ + 1],
                                               Tail(rest))}

\* variant: an empty `seen` is not worth a message
RECURSIVE gossip_loop_skips_empty(_, _)
gossip_loop_skips_empty(self, rest) ==
    IF rest = <<>> THEN {Outcome(self, <<>>, FALSE)}
    ELSE LET n == Head(rest) IN
         IF n \notin DOMAIN self.known THEN {Outcome(self, <<>>, TRUE)}
         ELSE {IF seen = {} THEN o
               ELSE Outcome(o.self,
                            <<Message(self.node, n, {}, {}, Gossip(seen))>>
                                \o o.out,
                            o.panic) :
                   seen \in seen_sets(self, n),
                   o \in gossip_loop_skips_empty([self EXCEPT !.id = @ + 1],
                                                 Tail(rest))}

\* variant: what is sent to n is recorded as known to n at once
RECURSIVE gossip_loop_optimistic(_, _)
gossip_loop_optimistic(self, rest) ==
    IF rest = <<>> THEN {Outcome(self, <<>>, FALSE)}
    ELSE LET n == Head(rest) IN
         IF n \notin DOMAIN self.known THEN {Outcome(self, <<>>, TRUE)}
         ELSE UNION {
                {Outcome(o.self,
                         <<Message(self.node, n, {}, {}, Gossip(seen))>>
                             \o o.out,
                         o.panic) :
                    o \in gossip_loop_optimistic(
                              [self EXCEPT !.id = @ + 1,
                                           !.known[n] = @ \cup seen],
                              Tail(rest))} :
                seen \in seen_sets(self, n)}

\* the loop over neighborhood from position `rest` on; indexing known with
\* an id that is not a key panics, after the sends of the earlier iterations
RECURSIVE gossip_loop(_, _)
gossip_loop(self, rest) ==
    IF rest = <<>> THEN {Outcome(self, <<>>, FALSE)}
    ELSE LET n == Head(rest) IN
         IF n \notin DOMAIN self.known THEN {Outcome(self, <<>>, TRUE)}
         ELSE {Outcome(o.self,
                       <<Message(self.node, n, {}, {}, Gossip(seen))>> \o o.out,
                       o.panic) :
                   seen \in seen_sets(self, n),
                   o \in gossip_loop([self EXCEPT !.id = @ + 1], Tail(rest))}

\* variant: the tick itself draws a counter value
step_injected_counts(self) ==
    gossip_loop([self EXCEPT !.id = @ + 1], self.neighborhood)

step_injected(self) == gossip_loop(self, self.neighborhood)

(***************************************************************************)
(* BroadcastNode::step, Event::Message: one operator per match arm;        *)
(* self already has the counter into_reply advanced                        *)
(***************************************************************************)
\* variant: the values are recorded for the sender only
step_gossip_estimate_only(self, reply) ==
    LET seen == reply.body.payload.seen IN
    IF reply.dst \notin DOMAIN self.known
    THEN Outcome(self, <<>>, TRUE)
    ELSE Outcome([self EXCEPT !.known[reply.dst] = @ \cup seen], <<>>, FALSE)

\* variant: messages is assigned, not extended
step_gossip_assigns(self, reply) ==
    LET seen == reply.body.payload.seen IN
    IF reply.dst \notin DOMAIN self.known
    THEN Outcome(self, <<>>, TRUE)
    ELSE Outcome([self EXCEPT !.known[reply.dst] = @ \cup seen,
                              !.messages = seen],
                 <<>>, FALSE)

\* variant: the estimate is filed under the reply's src, the node itself
step_gossip_keyed_by_src(self, reply) ==
    LET seen == reply.body.payload.seen IN
    IF reply.dst \notin DOMAIN self.known
    THEN Outcome(self, <<>>, TRUE)
    ELSE Outcome([self EXCEPT !.known[reply.src] = @ \cup seen,
                              !.messages = @ \cup seen],
                 <<>>, FALSE)

\* variant: messages is extended before the sender is looked up
step_gossip_merges_first(self, reply) ==
    LET seen == reply.body.payload.seen IN
    IF reply.dst \notin DOMAIN self.known
    THEN Outcome([self EXCEPT !.messages = @ \cup seen], <<>>, TRUE)
    ELSE Outcome([self EXCEPT !.known[reply.dst] = @ \cup seen,
                              !.messages = @ \cup seen],
                 <<>>, FALSE)

step_gossip(self, reply) ==
    LET seen == reply.body.payload.seen IN
    IF reply.dst \notin DOMAIN self.known
    THEN Outcome(self, <<>>, TRUE)
    ELSE Outcome([self EXCEPT !.known[reply.dst] = @ \cup seen,
                              !.messages = @ \cup seen],
                 <<>>, FALSE)

\* variant: only a new value is acknowledged
step_broadcast_new_only(self, reply) ==
    LET message == reply.body.payload.message IN
    Outcome([self EXCEPT !.messages = @ \cup {message}],
            IF message \in self.messages THEN <<>>
            ELSE <<[reply EXCEPT !.body.payload = BroadcastOk]>>,
            FALSE)

\* variant: the payload of the reply is not replaced
step_broadcast_echo(self, reply) ==
    Outcome([self EXCEPT !.messages = @ \cup {reply.body.payload.message}],
            <<reply>>, FALSE)

step_broadcast(self, reply) ==
    Outcome([self EXCEPT !.messages = @ \cup {reply.body.payload.message}],
            <<[reply EXCEPT !.body.payload = BroadcastOk]>>, FALSE)

\* variant: the reply carries the estimates, not messages
step_read_estimates(self, reply) ==
    Outcome(self,
            <<[reply EXCEPT !.body.payload =
                  ReadOk(UNION {self.known[n] : n \in DOMAIN self.known})]>>,
            FALSE)

step_read(self, reply) ==
    Outcome(self, <<[reply EXCEPT !.body.payload = ReadOk(self.messages)]>>,
            FALSE)

\* variant: the entry is appended to the neighborhood
step_topology_extends(self, reply) ==
    LET topology == reply.body.payload.topology IN
    IF self.node \notin DOMAIN topology
    THEN Outcome(self, <<>>, TRUE)
    ELSE Outcome([self EXCEPT !.neighborhood = @ \o topology[self.node]],
                 <<[reply EXCEPT !.body.payload = TopologyOk]>>, FALSE)

\* variant: unwrap_or_default in place of the panic
step_topology_or_default(self, reply) ==
    LET topology == reply.body.payload.topology IN
    Outcome([self EXCEPT !.neighborhood =
                IF self.node \in DOMAIN topology THEN topology[self.node]
                ELSE <<>>],
            <<[reply EXCEPT !.body.payload = TopologyOk]>>, FALSE)

step_topology(self, reply) ==
    LET topology == reply.body.payload.topology IN
    IF self.node \notin DOMAIN topology
    THEN Outcome(self, <<>>, TRUE)
    ELSE Outcome([self EXCEPT !.neighborhood = topology[self.node]],
                 <<[reply EXCEPT !.body.payload = TopologyOk]>>, FALSE)

\* variant: an acknowledgement nobody waits for is unreachable!()
step_ok_unexpected(self, reply) == Outcome(self, <<>>, TRUE)

step_ok(self, reply) == Outcome(self, <<>>, FALSE)

step_message(self, input) ==
    LET r     == into_reply(input, self.id)
        reply == r.msg
        s     == [self EXCEPT !.id = r.id]
        type  == reply.body.payload.type
    IN  CASE type = "gossip"    -> step_gossip(s, reply)
          [] type = "broadcast" -> step_broadcast(s, reply)
          [] type = "read"      -> step_read(s, reply)
          [] type = "topology"  -> step_topology(s, reply)
          [] type \in {"broadcast_ok", "read_ok", "topology_ok"}
                                -> step_ok(s, reply)

\* BroadcastNode::step: the outcomes of one call
step(self, input) ==
    CASE input.kind = "EOF"      -> {Outcome(self, <<>>, FALSE)}
      [] input.kind = "Injected" -> step_injected(self)
      [] input.kind = "Message"  -> {step_message(self, input.msg)}

(***************************************************************************)
(* The network between the nodes: what a node writes to a member of the    *)
(* cluster is in chan[<<src, dst>>] until dst reads it, in any order;      *)
(* equal messages in flight on one channel are one element. Replies to     *)
(* clients and messages to ids outside the membership leave the model.     *)
(***************************************************************************)
Route(ch, out) ==
    [p \in DOMAIN ch |->
        ch[p] \cup {out[i] : i \in {k \in DOMAIN out :
                                       <<out[k].src, out[k].dst>> = p}}]

IsPayload(ev, type) ==
    ev.kind = "Message" /\ ev.msg.body.payload.type = type

\* values the event delivers to the node
Carried(ev) ==
    IF IsPayload(ev, "broadcast") THEN {ev.msg.body.payload.message}
    ELSE IF IsPayload(ev, "gossip") THEN ev.msg.body.payload.seen
    ELSE {}

\* history h of assigned entries, once entry e is assigned
Assign(h, e) ==
    IF h = <<>> THEN <<e>>
    ELSE IF h[Len(h)] = e THEN h
    ELSE <<h[Len(h)], e>>

HistoryStep(n, ev) ==
    /\ broadcasted' = IF IsPayload(ev, "broadcast")
                      THEN broadcasted \cup Carried(ev) ELSE broadcasted
    /\ delivered' = [delivered EXCEPT ![n] = @ \cup Carried(ev)]
    /\ assigned' = IF /\ IsPayload(ev, "topology")
                      /\ n \in DOMAIN ev.msg.body.payload.topology
                   THEN [assigned EXCEPT
                            ![n] = Assign(@, ev.msg.body.payload.topology[n])]
                   ELSE assigned
    /\ UNCHANGED guids

\* node n takes event ev off its queue and runs step on it; ch is the
\* network once the event is taken
Handle(n, ev, ch) ==
    /\ ~aborted[n]
    /\ \E o \in step(Self(n), ev) :
          /\ messages' = [messages EXCEPT ![n] = o.self.messages]
          /\ known' = [known EXCEPT ![n] = o.self.known]
          /\ neighborhood' = [neighborhood EXCEPT ![n] = o.self.neighborhood]
          /\ id' = [id EXCEPT ![n] = o.self.id]
          /\ aborted' = [aborted EXCEPT ![n] = o.panic]
          /\ chan' = Route(ch, o.out)
          /\ lastEvt' = [node |-> n, event |-> ev, self |-> Self(n)]
          /\ lastOut' = o.out
    /\ HistoryStep(n, ev)

\* counter values drawn so far by all nodes
RECURSIVE DrawnBy(_)
DrawnBy(S) ==
    IF S = {} THEN 0
    ELSE LET n == CHOOSE x \in S : TRUE
         IN  (id[n] - FirstId) + DrawnBy(S \ {n})

\* the environment issues requests and ticks while the counters of the
\* cluster have drawn fewer than MaxDrawn values
Within == DrawnBy(Nodes) < MaxDrawn

Request(c, n, mid, payload) == EventMessage(Message(c, n, {mid}, {}, payload))

OnBroadcast(n) ==
    \E c \in Clients, mid \in MsgIds, v \in Values :
        /\ Within /\ Handle(n, Request(c, n, mid, Broadcast(v)), chan)
        /\ UNCHANGED qvars

OnRead(n) ==
    \E c \in Clients, mid \in MsgIds :
        /\ Within /\ Handle(n, Request(c, n, mid, Read), chan)
        /\ UNCHANGED qvars

OnTopology(n) ==
    \E c \in Clients, mid \in MsgIds, t \in Topologies :
        /\ Within /\ Handle(n, Request(c, n, mid, Topology(t)), chan)
        /\ UNCHANGED qvars

\* an acknowledgement payload arrives
OnOk(n) ==
    \E c \in Clients, p \in {BroadcastOk, ReadOk({}), TopologyOk} :
        /\ Within /\ Handle(n, EventMessage(Message(c, n, {}, {}, p)), chan)
        /\ UNCHANGED qvars

\* n reads a Gossip message of a member
OnGossip(n) ==
    \E s \in Nodes : \E m \in chan[<<s, n>>] :
        /\ Handle(n, EventMessage(m), [chan EXCEPT ![<<s, n>>] = @ \ {m}])
        /\ UNCHANGED qvars

\* a Gossip message whose src is not a member of the cluster
OnStrangerGossip(n) ==
    \E seen \in {Values} :
        /\ Within
        /\ Handle(n, EventMessage(Message(Stranger, n, {}, {}, Gossip(seen))),
                  chan)
        /\ UNCHANGED qvars

\* the timer's Event::Injected(InjectedPayload::Gossip)
OnTick(n) == Within /\ Handle(n, EventInjected, chan) /\ UNCHANGED qvars

OnEOF(n) == Within /\ Handle(n, EventEOF, chan) /\ UNCHANGED qvars

\* a message to a node whose process is gone is never read
Lost(n) ==
    /\ aborted[n]
    /\ \E s \in Nodes : \E m \in chan[<<s, n>>] :
          chan' = [chan EXCEPT ![<<s, n>>] = @ \ {m}]
    /\ UNCHANGED <<messages, known, neighborhood, id, aborted, lastEvt,
                   lastOut, broadcasted, delivered, assigned, guids>>
    /\ UNCHANGED qvars

(***************************************************************************)
(* BroadcastNode::from_init and the cluster of broadcast nodes             *)
(***************************************************************************)
\* the queue and the threads of a process once from_init has returned
QueueInit ==
    /\ queue = <<>>
    /\ consumer = "recv"
    /\ cur = [no |-> 0, ev |-> NoEvent]
    /\ timer = "running"
    /\ reader = "reading"
    /\ enqueued = 0
    /\ taken = 0
    /\ attempts = 0

Init ==
    /\ messages = [n \in Nodes |-> {}]
    /\ known = [n \in Nodes |-> [nid \in Nodes |-> {}]]
    /\ neighborhood = [n \in Nodes |-> <<>>]
    /\ id = [n \in Nodes |-> FirstId]
    /\ aborted = [n \in Nodes |-> FALSE]
    /\ chan = [p \in Nodes \X Nodes |-> {}]
    /\ lastEvt = NoCall
    /\ lastOut = <<>>
    /\ broadcasted = {}
    /\ delivered = [n \in Nodes |-> {}]
    /\ assigned = [n \in Nodes |-> <<>>]
    /\ guids = <<>>
    /\ QueueInit

Next ==
    \E n \in Nodes :
        \/ OnBroadcast(n)
        \/ OnRead(n)
        \/ OnTopology(n)
        \/ OnOk(n)
        \/ OnGossip(n)
        \/ OnStrangerGossip(n)
        \/ OnTick(n)
        \/ OnEOF(n)
        \/ Lost(n)

Spec == Init /\ [][Next]_vars

(***************************************************************************)
(* FairSpec: the flow of values through the cluster under fair scheduling, *)
(* over unboundedly many events.                                           *)
(* The counter, lastEvt and lastOut are write-only for this flow (no       *)
(* handler reads them to decide what to store or send), so FairSpec leaves *)
(* them alone. The Gossip messages of one channel that are still unread    *)
(* are kept as one message with the union of their values: reading         *)
(* Gossip(a) and then Gossip(b) from one sender extends messages and known *)
(* by the same values as reading Gossip(a \cup b).                         *)
(* Topology assignments are well formed and every Gossip message comes     *)
(* from a member, so no node aborts. The timer fires every 300 ms for ever *)
(* (WF on the tick of every node) and the network delivers what is sent    *)
(* (WF on the read of every channel).                                      *)
(***************************************************************************)
FlowRoute(ch, out) ==
    [p \in DOMAIN ch |->
        LET new == {out[i] : i \in {k \in DOMAIN out :
                                       <<out[k].src, out[k].dst>> = p}}
        IN  IF new = {} THEN ch[p]
            ELSE {Message(p[1], p[2], {}, {},
                      Gossip(UNION {m.body.payload.seen : m \in ch[p] \cup new}))}]

Flow(n, ev, ch) ==
    /\ ~aborted[n]
    /\ \E o \in step(Self(n), ev) :
          /\ messages' = [messages EXCEPT ![n] = o.self.messages]
          /\ known' = [known EXCEPT ![n] = o.self.known]
          /\ neighborhood' = [neighborhood EXCEPT ![n] = o.self.neighborhood]
          /\ aborted' = [aborted EXCEPT ![n] = o.panic]
          /\ chan' = FlowRoute(ch, o.out)
    /\ HistoryStep(n, ev)
    /\ UNCHANGED <<id, lastEvt, lastOut>>
    /\ UNCHANGED qvars

FlowBroadcast(n) ==
    \E c \in Clients, mid \in MsgIds, v \in FlowValues :
        Flow(n, Request(c, n, mid, Broadcast(v)), chan)

FlowTopology(n) ==
    \E c \in Clients, mid \in MsgIds, t \in FlowTopologies :
        Flow(n, Request(c, n, mid, Topology(t)), chan)

\* n reads what s has sent it
FlowGossip(s, n) ==
    \E m \in chan[<<s, n>>] :
        Flow(n, EventMessage(m), [chan EXCEPT ![<<s, n>>] = {}])

FlowTick(n) == Flow(n, EventInjected, chan)

FairNext ==
    \E n \in Nodes :
        \/ FlowBroadcast(n)
        \/ FlowTopology(n)
        \/ \E s \in Nodes : FlowGossip(s, n)
        \/ FlowTick(n)

FairSpec ==
    /\ Init
    /\ [][FairNext]_vars
    /\ \A n \in Nodes : WF_vars(FlowTick(n))
    /\ \A s, n \in Nodes : WF_vars(FlowGossip(s, n))

(***************************************************************************)
(* TickSpec: one gossip tick on a node that holds many values.             *)
(* The initial states are states of the cluster after n1 and n2 were made  *)
(* neighbours, n2 received Broadcasts 1..j and gossiped them to n1, and n1 *)
(* received Broadcasts j+1..k; the only event is the next tick of a node.  *)
(***************************************************************************)
TickInit ==
    \E k \in 0..MaxTickVal : \E j \in 0..k :
        /\ messages = [n \in Nodes |-> CASE n = "n1" -> 1..k
                                         [] n = "n2" -> 1..j
                                         [] OTHER    -> {}]
        /\ known = [n \in Nodes |-> [nid \in Nodes |->
                        IF n = "n1" /\ nid = "n2" THEN 1..j ELSE {}]]
        /\ neighborhood = [n \in Nodes |->
                              CASE n = "n1"          -> <<"n2">>
                                [] n = "n2" /\ j > 0 -> <<"n1">>
                                [] OTHER             -> <<>>]
        /\ id = [n \in Nodes |->
                    CASE n = "n1" -> FirstId + 1 + (IF j > 0 THEN 1 ELSE 0)
                                             + (k - j)
                      [] n = "n2" -> IF j > 0 THEN FirstId + j + 2 ELSE FirstId
                      [] OTHER    -> FirstId]
        /\ aborted = [n \in Nodes |-> FALSE]
        /\ chan = [p \in Nodes \X Nodes |-> {}]
        /\ lastEvt = NoCall
        /\ lastOut = <<>>
        /\ broadcasted = 1..k
        /\ delivered = [n \in Nodes |-> CASE n = "n1" -> 1..k
                                          [] n = "n2" -> 1..j
                                          [] OTHER    -> {}]
        /\ assigned = [n \in Nodes |->
                          CASE n = "n1"          -> << <<"n2">> >>
                            [] n = "n2" /\ j > 0 -> << <<"n1">> >>
                            [] OTHER             -> <<>>]
        /\ guids = <<>>
        /\ QueueInit

\* the first tick after the initial state
FirstTick(n) ==
    lastEvt = NoCall /\ Handle(n, EventInjected, chan) /\ UNCHANGED qvars

TickNext == \E n \in Nodes : FirstTick(n)

TickSpec == TickInit /\ [][TickNext]_vars

(***************************************************************************)
(* UniqueNode (src/bin/unique_ids.rs) and a cluster of unique-id nodes     *)
(***************************************************************************)
\* variant: the node id is left out
guid_counter_only(node, counter) == ToString(counter)

\* format!("{}-{}", self.node, self.id)
guid(node, counter) == node \o "-" \o ToString(counter)

UniqueSelf(n) == [node |-> n, id |-> id[n]]

\* UniqueNode::step
unique_step(self, input) ==
    IF input.kind # "Message" THEN Outcome(self, <<>>, TRUE)
    ELSE LET r     == into_reply(input.msg, self.id)
             reply == r.msg
             s     == [self EXCEPT !.id = r.id]
         IN  IF reply.body.payload.type = "generate"
             THEN Outcome(s, <<[reply EXCEPT !.body.payload =
                                   GenerateOk(guid(s.node, s.id))]>>, FALSE)
             ELSE Outcome(s, <<>>, FALSE)

UniqueHandle(n, ev) ==
    /\ ~aborted[n]
    /\ LET o == unique_step(UniqueSelf(n), ev) IN
          /\ id' = [id EXCEPT ![n] = o.self.id]
          /\ aborted' = [aborted EXCEPT ![n] = o.panic]
          /\ lastEvt' = [node |-> n, event |-> ev, self |-> UniqueSelf(n)]
          /\ lastOut' = o.out
          /\ guids' = guids \o [i \in DOMAIN o.out |->
                                   [node |-> n,
                                    guid |-> o.out[i].body.payload.guid]]
    /\ UNCHANGED <<messages, known, neighborhood, chan, broadcasted,
                   delivered, assigned>>
    /\ UNCHANGED qvars

\* the environment issues requests while the counters of the cluster have
\* drawn fewer than MaxGenerated values
UniqueWithin == DrawnBy(Nodes) < MaxGenerated

OnGenerate(n) ==
    \E c \in Clients, mid \in MsgIds :
        UniqueWithin /\ UniqueHandle(n, Request(c, n, mid, Generate))

OnGenerateOk(n) ==
    \E c \in Clients :
        UniqueWithin /\ UniqueHandle(n, EventMessage(Message(c, n, {}, {}, GenerateOk(""))))

\* an event that is not a message
OnNotMessage(n) ==
    \E ev \in {EventInjected, EventEOF} : UniqueWithin /\ UniqueHandle(n, ev)

UniqueNext ==
    \E n \in Nodes :
        \/ OnGenerate(n)
        \/ OnGenerateOk(n)
        \/ OnNotMessage(n)

UniqueSpec == Init /\ [][UniqueNext]_vars

(***************************************************************************)
(* QueueSpec: the threads of the process of one broadcast node.            *)
(* from_init spawns the timer thread with a sender of the event queue; the *)
(* transport reader holds another sender and sends every inbound message,  *)
(* then EOF; the consumer receives the events one by one and calls step on *)
(* each. A send fails once the receiving end is dropped, which happens     *)
(* when step panics. The timer thread never drops its sender, so the       *)
(* consumer does not run out of events otherwise.                          *)
(***************************************************************************)
\* the node whose process this is
Proc == "n1"

\* the messages the transport can deliver to Proc
Inbound ==
    {Request("c1", Proc, 1, Broadcast(1)),
     Request("c1", Proc, 1, Topology(Line)),
     Request("c1", Proc, 1, Topology(Partial)),
     EventMessage(Message("n2", Proc, {}, {}, Gossip({2})))}

\* tx.send(ev) on a queue whose receiving end lives
Enqueue(ev) ==
    /\ enqueued < MaxEnqueued
    /\ queue' = Append(queue, [no |-> enqueued + 1, ev |-> ev])
    /\ enqueued' = enqueued + 1

\* variant: the result of send is dropped, `let _ = tx.send(..)`
TimerSend_unchecked ==
    /\ timer = "running"
    /\ attempts' = attempts + 1
    /\ IF consumer # "gone"
       THEN Enqueue(EventInjected)
       ELSE UNCHANGED <<queue, enqueued>>
    /\ UNCHANGED <<timer, consumer, cur, reader, taken>>
    /\ UNCHANGED nodevars

\* variant: the timer thread runs the gossip round on the node itself
TimerSend_steps ==
    /\ timer = "running"
    /\ attempts' = attempts + 1
    /\ Handle(Proc, EventInjected, chan)
    /\ UNCHANGED <<queue, enqueued, timer, consumer, cur, reader, taken>>

\* one turn of the timer thread's loop: sleep, send a tick, break on Err
TimerSend ==
    /\ timer = "running"
    /\ attempts' = attempts + 1
    /\ IF consumer # "gone"
       THEN Enqueue(EventInjected) /\ timer' = "running"
       ELSE timer' = "done" /\ UNCHANGED <<queue, enqueued>>
    /\ UNCHANGED <<consumer, cur, reader, taken>>
    /\ UNCHANGED nodevars

\* the transport reader sends an inbound message, and stops when the send
\* fails
ReaderSend ==
    /\ reader = "reading"
    /\ IF consumer # "gone"
       THEN (\E ev \in Inbound : Enqueue(ev)) /\ reader' = "reading"
       ELSE reader' = "done" /\ UNCHANGED <<queue, enqueued>>
    /\ UNCHANGED <<consumer, cur, timer, taken, attempts>>
    /\ UNCHANGED nodevars

\* the transport is exhausted: the reader sends EOF and ends
ReaderEOF ==
    /\ reader = "reading"
    /\ consumer # "gone"
    /\ Enqueue(EventEOF)
    /\ reader' = "done"
    /\ UNCHANGED <<consumer, cur, timer, taken, attempts>>
    /\ UNCHANGED nodevars

\* the consumer receives the oldest event of the queue
Take ==
    /\ consumer = "recv"
    /\ queue # <<>>
    /\ cur' = Head(queue)
    /\ queue' = Tail(queue)
    /\ taken' = taken + 1
    /\ consumer' = "step"
    /\ UNCHANGED <<timer, reader, enqueued, attempts>>
    /\ UNCHANGED nodevars

\* step returns, or panics: the unwinding drops the receiving end and the
\* events still queued
Finish ==
    /\ consumer = "step"
    /\ Handle(Proc, cur.ev, chan)
    /\ consumer' = IF aborted'[Proc] THEN "gone" ELSE "recv"
    /\ queue' = IF aborted'[Proc] THEN <<>> ELSE queue
    /\ UNCHANGED <<cur, timer, reader, enqueued, taken, attempts>>

QueueNext ==
    \/ TimerSend
    \/ ReaderSend
    \/ ReaderEOF
    \/ Take
    \/ Finish

QueueSpec == Init /\ [][QueueNext]_vars

(***************************************************************************)
(* Properties                                                              *)
(***************************************************************************)
Evt == lastEvt.event
At  == lastEvt.node
Req == lastEvt.event.msg
Was == lastEvt.self

\* the nodes b with a path a -> ... -> b along Neighborhood entries
RECURSIVE ReachIn(_, _)
ReachIn(S, k) ==
    IF k = 0 THEN S
    ELSE ReachIn(S \cup UNION {Range(neighborhood[m]) : m \in S}, k - 1)

\* every node reaches every other node over the assigned neighborhoods
Connected ==
    \A a \in Nodes : Nodes \subseteq ReachIn({a}, Cardinality(Nodes))

Converged == \A n \in Nodes : messages[n] = broadcasted

OneGossipEach ==
    /\ Len(lastOut) = Len(neighborhood[At])
    /\ \A i \in DOMAIN lastOut :
          /\ lastOut[i].dst = neighborhood[At][i]
          /\ lastOut[i].body.payload.type = "gossip"

\* C2: after a tick, the Gossip message to every neighbor n contains every
\* value of messages that is not in known[n].
C2_WholeDifferenceSent ==
    Evt.kind = "Injected" =>
        /\ OneGossipEach
        /\ \A i \in DOMAIN lastOut :
              (messages[At] \ known[At][lastOut[i].dst])
                  \subseteq lastOut[i].body.payload.seen

Min(a, b) == IF a <= b THEN a ELSE b

\* C3: after a tick, the Gossip message to every neighbor n carries at most
\* |messages \ known[n]| + min(10, |messages \cap known[n]|) values.
C3_BoundedVolume ==
    Evt.kind = "Injected" =>
        \A i \in DOMAIN lastOut :
            LET n == lastOut[i].dst IN
            Cardinality(lastOut[i].body.payload.seen) <=
                Cardinality(messages[At] \ known[At][n])
              + Min(SampleCap, Cardinality(messages[At] \cap known[At][n]))

\* C4: no event removes a value from the messages of any node.
C4_Monotonic ==
    [][\A n \in Nodes : messages[n] \subseteq messages'[n]]_vars

\* C4 witness: a node that held a value took in another and holds both
C4_Witness ==
    /\ IsPayload(Evt, "broadcast")
    /\ Was.messages # {}
    /\ Req.body.payload.message \notin Was.messages
    /\ messages[At] = Was.messages \cup {Req.body.payload.message}

LastAssigned(n) ==
    IF assigned[n] = <<>> THEN <<>> ELSE assigned[n][Len(assigned[n])]

\* C7: the neighborhood of a node is its entry of the last topology it
\* processed, and a tick writes Gossip only to members of that entry.
C7_TopologyReplaces ==
    /\ \A n \in Nodes : neighborhood[n] = LastAssigned(n)
    /\ Evt.kind = "Injected" =>
          \A i \in DOMAIN lastOut : lastOut[i].dst \in Range(LastAssigned(At))

\* C7 witness: a tick wrote Gossip after a second assignment that dropped a
\* neighbour of the first
C7_Witness ==
    /\ Evt.kind = "Injected"
    /\ lastOut # <<>>
    /\ Len(assigned[At]) = 2
    /\ Range(assigned[At][1]) \ Range(assigned[At][2]) # {}

BadTopology ==
    IsPayload(Evt, "topology") /\ At \notin DOMAIN Req.body.payload.topology

\* C8: a topology without an entry for the node aborts the node, writes no
\* topology_ok and leaves the neighborhood as it was.
C8_FatalBadTopology ==
    BadTopology =>
        /\ aborted[At]
        /\ lastOut = <<>>
        /\ neighborhood[At] = Was.neighborhood

\* C8 witness: a node with neighbours processed a topology without its entry
C8_Witness == BadTopology /\ Was.neighborhood # <<>>

\* the call wrote exactly one message, the reply of the given type
Correlated(type) ==
    /\ Len(lastOut) = 1
    /\ lastOut[1].body.payload.type = type
    /\ lastOut[1].src = Req.dst
    /\ lastOut[1].dst = Req.src
    /\ lastOut[1].body.in_reply_to = Req.body.id

\* C9 as claimed: every Broadcast, Read and Topology request is answered by
\* exactly one correlated reply of its type, and a Gossip by nothing.
C9_EveryRequestAnswered ==
    /\ IsPayload(Evt, "broadcast") => Correlated("broadcast_ok")
    /\ IsPayload(Evt, "read") => Correlated("read_ok")
    /\ IsPayload(Evt, "topology") => Correlated("topology_ok")
    /\ IsPayload(Evt, "gossip") => lastOut = <<>>

\* C9 as amended: every Broadcast and Read request, and every Topology
\* request with an entry for the node, is answered by exactly one correlated
\* reply of its type; a Topology request without the entry and a Gossip are
\* answered by nothing.
C9_RequestsAnswered ==
    /\ IsPayload(Evt, "broadcast") => Correlated("broadcast_ok")
    /\ IsPayload(Evt, "read") => Correlated("read_ok")
    /\ IsPayload(Evt, "topology") =>
          IF BadTopology THEN lastOut = <<>> ELSE Correlated("topology_ok")
    /\ IsPayload(Evt, "gossip") => lastOut = <<>>

\* C9 witness: a Broadcast was answered with a msg_id of the node's own,
\* other than the request's
C9_Witness ==
    /\ IsPayload(Evt, "broadcast")
    /\ Correlated("broadcast_ok")
    /\ lastOut[1].body.id # lastOut[1].body.in_reply_to

\* C10: no two generate_ok replies of the cluster carry the same id, and
\* each id is its node's id, "-", and a value the node's counter has had.
C10_UniqueIds ==
    /\ \A i, j \in DOMAIN guids : i # j => guids[i].guid # guids[j].guid
    /\ \A i \in DOMAIN guids :
          \E c \in FirstId..id[guids[i].node] :
              guids[i].guid = guids[i].node \o "-" \o ToString(c)

\* C10 witness: two ids of one node and one of another
C10_Witness ==
    \E i, j, k \in DOMAIN guids :
        /\ i # j
        /\ guids[i].node = guids[j].node
        /\ guids[k].node # guids[i].node

\* the node state the last call of step left is the state it found
UnchangedBy(fields) ==
    /\ ("messages" \in fields) => messages[At] = Was.messages
    /\ ("known" \in fields) => known[At] = Was.known
    /\ ("neighborhood" \in fields) => neighborhood[At] = Was.neighborhood
    /\ ("id" \in fields) => id[At] = Was.id

\* C11: a Gossip(seen) read from member s extends known[s] by seen and leaves
\* every other entry of known as it was, the node's own included; every
\* other event leaves known as it was.
C11_KeyedBySender ==
    Evt.kind # "None" =>
        known[At] =
            IF IsPayload(Evt, "gossip") /\ Req.src \in Nodes
            THEN [Was.known EXCEPT ![Req.src] = @ \cup Req.body.payload.seen]
            ELSE Was.known

\* C11 witness: a Gossip of a member with values was read, and the values
\* are filed under the sender only
C11_Witness ==
    /\ IsPayload(Evt, "gossip")
    /\ Req.src \in Nodes \ {At}
    /\ Req.body.payload.seen # {}
    /\ Was.known[Req.src] = {}
    /\ known[At][Req.src] = Req.body.payload.seen
    /\ known[At][At] = {}

\* C12: until a node has processed a topology with its entry, its
\* neighborhood is empty and a tick writes nothing and leaves messages,
\* known, neighborhood and the counter as they were.
C12_InitializingTicksIdle ==
    /\ \A n \in Nodes : assigned[n] = <<>> => neighborhood[n] = <<>>
    /\ (Evt.kind = "Injected" /\ assigned[At] = <<>>) =>
          /\ lastOut = <<>>
          /\ UnchangedBy({"messages", "known", "neighborhood", "id"})
          /\ ~aborted[At]

\* C12 witness: a tick at a node that holds a value and has no topology yet
C12_Witness ==
    /\ Evt.kind = "Injected"
    /\ assigned[At] = <<>>
    /\ Was.messages # {}

IsIgnored(ev) ==
    \/ ev.kind = "EOF"
    \/ IsPayload(ev, "broadcast_ok")
    \/ IsPayload(ev, "read_ok")
    \/ IsPayload(ev, "topology_ok")

\* C13: a broadcast_ok, read_ok or topology_ok and the end of input write
\* nothing, leave messages, known and neighborhood as they were and do not
\* abort the node.
C13_IgnoredEvents ==
    IsIgnored(Evt) =>
        /\ lastOut = <<>>
        /\ UnchangedBy({"messages", "known", "neighborhood"})
        /\ ~aborted[At]

\* C13 witness: an acknowledgement arrived at a node that holds a value and
\* has neighbours; the node never sent a request
C13_Witness ==
    /\ Evt.kind = "Message"
    /\ IsIgnored(Evt)
    /\ Was.messages # {}
    /\ Was.neighborhood # <<>>

\* C14: a call of step advances the counter by the number of messages it
\* writes: once per reply, once per Gossip of a tick, and not at all for a
\* Gossip or an acknowledgement read.
C14_OnePerOutbound ==
    Evt.kind # "None" =>
        /\ id[At] >= Was.id
        /\ id[At] - Was.id = Len(lastOut)

\* positions of s that hold an id outside the membership
NonMembers(s) == {i \in DOMAIN s : s[i] \notin Nodes}

\* the entries of s before the first id outside the membership
MembersFirst(s) ==
    IF NonMembers(s) = {} THEN s
    ELSE SubSeq(s, 1, (CHOOSE i \in NonMembers(s) :
                          \A j \in NonMembers(s) : i <= j) - 1)

\* C15: known has one entry per member at all times; a tick whose
\* neighborhood holds an id outside the membership aborts the node and writes
\* nothing to that id; a Gossip whose src is outside the membership aborts
\* the node and leaves messages and known as they were.
C15_FatalUnknownId ==
    /\ \A n \in Nodes : DOMAIN known[n] = Nodes
    /\ (Evt.kind = "Injected" /\ NonMembers(Was.neighborhood) # {}) =>
          /\ aborted[At]
          /\ \A i \in DOMAIN lastOut : lastOut[i].dst \in Nodes
    /\ (IsPayload(Evt, "gossip") /\ Req.src \notin Nodes) =>
          /\ aborted[At]
          /\ lastOut = <<>>
          /\ UnchangedBy({"messages", "known"})

\* C15 witness: a tick wrote to a member and aborted at the next entry
C15_Witness ==
    /\ Evt.kind = "Injected"
    /\ NonMembers(Was.neighborhood) # {}
    /\ lastOut # <<>>
    /\ aborted[At]

\* the tick at node At wrote one Gossip message to each entry of s, in the
\* order of s, without msg_id and in_reply_to
GossipTo(s) ==
    /\ Len(lastOut) = Len(s)
    /\ \A i \in DOMAIN lastOut :
          /\ lastOut[i].src = At
          /\ lastOut[i].dst = s[i]
          /\ lastOut[i].body.id = {}
          /\ lastOut[i].body.in_reply_to = {}
          /\ lastOut[i].body.payload.type = "gossip"

\* C16 as claimed: a tick with a non-empty neighborhood writes one Gossip
\* message per entry, in the order of the entries.
C16_OneGossipPerEntry ==
    (Evt.kind = "Injected" /\ Was.neighborhood # <<>>) =>
        GossipTo(Was.neighborhood)

\* C16 as amended: a tick with a non-empty neighborhood writes one Gossip
\* message per entry, in the order of the entries, up to the first entry
\* outside the membership, where the node aborts.
C16_GossipPerMemberEntry ==
    (Evt.kind = "Injected" /\ Was.neighborhood # <<>>) =>
        /\ GossipTo(MembersFirst(Was.neighborhood))
        /\ aborted[At] <=> NonMembers(Was.neighborhood) # {}

\* C16 witness: a tick with nothing to tell wrote to two neighbours, in an
\* order that is not the order of their ids
C16_Witness ==
    /\ Evt.kind = "Injected"
    /\ Was.neighborhood = <<"n3", "n2">>
    /\ Len(lastOut) = 2
    /\ lastOut[1].body.payload.seen = {}

\* C19: what a thinks b knows, b holds and a holds.
C19_SoundEstimates ==
    \A a, b \in Nodes :
        /\ known[a][b] \subseteq messages[b]
        /\ known[a][b] \subseteq messages[a]

\* C19 witness: a node has a non-empty estimate of another node
C19_Witness ==
    \E a, b \in Nodes : a # b /\ known[a][b] # {}

\* C20: every value a node holds and every value of a Gossip message written
\* was broadcast to some node before, and a tick writes only values the
\* node holds.
C20_NoInventedValues ==
    /\ \A n \in Nodes : messages[n] \subseteq broadcasted
    /\ \A p \in DOMAIN chan : \A m \in chan[p] :
          m.body.payload.seen \subseteq broadcasted
    /\ Evt.kind = "Injected" =>
          \A i \in DOMAIN lastOut :
              /\ lastOut[i].body.payload.seen \subseteq broadcasted
              /\ lastOut[i].body.payload.seen \subseteq Was.messages

\* C20 witness: a node with no value of its own took in the Gossip of a
\* neighbour
C20_Witness ==
    /\ IsPayload(Evt, "gossip")
    /\ Was.messages = {}
    /\ messages[At] # {}

\* C17: while the receiving end lives, every send of the timer thread
\* enqueues one tick and the thread goes on; the first send after the
\* receiving end is dropped enqueues nothing and ends the thread, which
\* then sends and enqueues nothing more.
C17_TimerStops ==
    /\ [](timer = "done" => consumer = "gone")
    /\ [][attempts' # attempts =>
            IF consumer # "gone"
            THEN /\ queue' = Append(queue, [no |-> enqueued + 1,
                                            ev |-> EventInjected])
                 /\ timer' = "running"
            ELSE /\ queue' = queue
                 /\ timer' = "done"]_vars
    /\ [][timer = "done" =>
            /\ timer' = "done"
            /\ attempts' = attempts
            /\ queue' = queue]_vars

\* C17 witness: the timer thread ended after a tick of its own was processed
C17_Witness ==
    /\ timer = "done"
    /\ attempts >= 2
    /\ consumer = "gone"

\* C18: the consumer takes the events in the order they were enqueued, and
\* the state of the node changes only when the consumer finishes the step of
\* the one event it holds; the sends of the timer thread and of the reader
\* change nothing but the queue.
C18_SerializedProcessing ==
    /\ [](consumer = "step" => cur.no = taken)
    /\ [][nodevars' # nodevars =>
            /\ consumer = "step"
            /\ consumer' # "step"
            /\ lastEvt'.node = Proc
            /\ lastEvt'.event = cur.ev]_vars
    /\ [][(attempts' # attempts \/ enqueued' # enqueued \/ reader' # reader)
            => /\ nodevars' = nodevars
               /\ <<consumer, cur, taken>>' = <<consumer, cur, taken>>]_vars

\* C18 witness: while the consumer runs step on a message, a tick and a
\* message wait in the queue behind it
C18_Witness ==
    /\ consumer = "step"
    /\ cur.ev.kind = "Message"
    /\ \E i, j \in DOMAIN queue :
          /\ queue[i].ev.kind = "Injected"
          /\ queue[j].ev.kind = "Message"

====
